---- MODULE Spec2Model ----
(***************************************************************************)
(* Model of etc/parsing-scripts/audit_decks.py: the deck-list auditor.     *)
(*                                                                         *)
(* Python strings are sequences of one-character strings, so that strip,   *)
(* startswith, lower, replace, the two regular expressions and the sort    *)
(* order are computed character by character.                              *)
(***************************************************************************)
EXTENDS Integers, Sequences, FiniteSets, TLC

VARIABLES
    filepath,        \* check_filename_format's argument: a file name
    filename_issue,  \* its return value
    deck,            \* check_deck_content's argument: [name, lines]
    content_result,  \* its return value
    fs,              \* the directory tree under ETC_DIR
    pc,              \* position of main
    set_dirs,        \* rest of sorted(ETC_DIR.iterdir())
    set_name,        \* audit_directory: dir_path.name
    txt_files,       \* audit_directory: rest of sorted(dir_path.glob("*.txt"))
    stats,           \* the five counters
    issues,          \* the three issue lists
    processed,       \* history: the files whose loop body has started, in order
    out              \* standard output, one element per printed line

vars == <<filepath, filename_issue, deck, content_result, fs, pc, set_dirs,
          set_name, txt_files, stats, issues, processed, out>>

nameVars == <<filepath, filename_issue>>
contentVars == <<deck, content_result>>
runVars == <<fs, pc, set_dirs, set_name, txt_files, stats, issues, processed, out>>

(***************************************************************************)
(* Characters and strings                                                  *)
(***************************************************************************)
Upper == {"A", "B", "C", "D", "E", "K", "L", "M", "N", "O", "R", "S", "U", "W"}
Lower == {"a", "b", "c", "d", "e", "g", "i", "k", "l", "m", "n", "o", "p",
          "r", "s", "t", "u", "w", "x"}
Digit == {"0", "1", "2", "3", "4", "5", "6", "7", "8", "9"}

\* str.strip() with no argument removes whitespace
IsSpace(c) == c \in {" ", "\t", "\n", "\r"}
\* the regular expression class \d
IsDigit(c) == c \in Digit
\* the regular expression class \w
IsWord(c) == c \in Upper \cup Lower \cup Digit \cup {"_"}

\* code points, for the order sorted() uses on paths of one directory
Ord(c) ==
    CASE c = "\t" -> 9   [] c = "\n" -> 10  [] c = "\r" -> 13  [] c = " " -> 32
      [] c = "(" -> 40   [] c = ")" -> 41   [] c = "-" -> 45   [] c = "." -> 46
      [] c = "/" -> 47   [] c = "0" -> 48   [] c = "1" -> 49   [] c = "2" -> 50
      [] c = "3" -> 51   [] c = "4" -> 52   [] c = "5" -> 53   [] c = "6" -> 54
      [] c = "7" -> 55   [] c = "8" -> 56   [] c = "9" -> 57   [] c = "A" -> 65
      [] c = "B" -> 66   [] c = "C" -> 67   [] c = "D" -> 68   [] c = "E" -> 69
      [] c = "K" -> 75   [] c = "L" -> 76   [] c = "M" -> 77   [] c = "N" -> 78
      [] c = "O" -> 79   [] c = "R" -> 82   [] c = "S" -> 83   [] c = "U" -> 85
      [] c = "W" -> 87   [] c = "_" -> 95   [] c = "a" -> 97   [] c = "b" -> 98
      [] c = "c" -> 99   [] c = "d" -> 100  [] c = "e" -> 101  [] c = "g" -> 103
      [] c = "i" -> 105  [] c = "k" -> 107  [] c = "l" -> 108  [] c = "m" -> 109
      [] c = "n" -> 110  [] c = "o" -> 111  [] c = "p" -> 112  [] c = "r" -> 114
      [] c = "s" -> 115  [] c = "t" -> 116  [] c = "u" -> 117  [] c = "w" -> 119
      [] c = "x" -> 120

\* str.lower() on one character
LowerChar(c) ==
    CASE c = "A" -> "a" [] c = "B" -> "b" [] c = "C" -> "c" [] c = "D" -> "d"
      [] c = "E" -> "e" [] c = "K" -> "k" [] c = "L" -> "l" [] c = "M" -> "m"
      [] c = "N" -> "n" [] c = "O" -> "o" [] c = "R" -> "r" [] c = "S" -> "s"
      [] c = "U" -> "u" [] c = "W" -> "w" [] OTHER -> c

\* str.lower()
ToLower(s) == [i \in 1..Len(s) |-> LowerChar(s[i])]

\* str.startswith(prefix)
StartsWith(s, prefix) ==
    /\ Len(prefix) <= Len(s)
    /\ SubSeq(s, 1, Len(prefix)) = prefix

\* str.endswith(suffix)
EndsWith(s, suffix) ==
    /\ Len(suffix) <= Len(s)
    /\ SubSeq(s, Len(s) - Len(suffix) + 1, Len(s)) = suffix

\* the operator `sub in s` on strings
Contains(s, sub) ==
    \E i \in 0..(Len(s) - Len(sub)) : SubSeq(s, i + 1, i + Len(sub)) = sub

\* str.strip(): drop the leading and the trailing whitespace
RECURSIVE LStrip(_)
LStrip(s) ==
    IF s # <<>> /\ IsSpace(Head(s)) THEN LStrip(Tail(s)) ELSE s

RECURSIVE RStrip(_)
RStrip(s) ==
    IF s # <<>> /\ IsSpace(s[Len(s)]) THEN RStrip(SubSeq(s, 1, Len(s) - 1)) ELSE s

Strip(s) == RStrip(LStrip(s))

\* str.replace(old, new) for a one-character old
RECURSIVE Replace(_, _, _)
Replace(s, old, new) ==
    IF s = <<>> THEN <<>>
    ELSE (IF Head(s) = old THEN new ELSE <<Head(s)>>) \o Replace(Tail(s), old, new)

\* lexicographic order by code point: s < t
RECURSIVE StrLess(_, _)
StrLess(s, t) ==
    IF t = <<>> THEN FALSE
    ELSE IF s = <<>> THEN TRUE
    ELSE IF Head(s) # Head(t) THEN Ord(Head(s)) < Ord(Head(t))
    ELSE StrLess(Tail(s), Tail(t))

\* sorted() with the comparison reversed
RECURSIVE SortedByNameDescending(_)
SortedByNameDescending(S) ==
    IF S = {} THEN <<>>
    ELSE LET m == CHOOSE x \in S : \A y \in S \ {x} : StrLess(y.name, x.name)
         IN <<m>> \o SortedByNameDescending(S \ {m})

\* sorted(): the entries of S in increasing order of their names
RECURSIVE SortedByName(_)
SortedByName(S) ==
    IF S = {} THEN <<>>
    ELSE LET m == CHOOSE x \in S : \A y \in S \ {x} : StrLess(x.name, y.name)
         IN <<m>> \o SortedByName(S \ {m})

\* PurePath.stem: the name without its last suffix
RLastDot(name) ==
    IF \E i \in 1..Len(name) : name[i] = "."
    THEN CHOOSE i \in 1..Len(name) :
            /\ name[i] = "."
            /\ \A j \in (i + 1)..Len(name) : name[j] # "."
    ELSE 0

Stem(name) ==
    LET i == RLastDot(name)
    IN IF 1 < i /\ i < Len(name) THEN SubSeq(name, 1, i - 1) ELSE name

DotTxt == <<".", "t", "x", "t">>

(***************************************************************************)
(* check_filename_format                                                   *)
(***************************************************************************)
None == <<"None">>

\* re.search(r'-\d+$', filename): the number of trailing digits of the match,
\* 0 when there is no match
HyphenDigits(filename) ==
    LET n == Len(filename)
        K == {k \in 1..(n - 1) :
                /\ filename[n - k] = "-"
                /\ \A i \in (n - k + 1)..n : IsDigit(filename[i])}
    IN IF K = {} THEN 0 ELSE CHOOSE k \in K : TRUE

\* re.search(r'(\w)\((\d+)\)$', filename): the number of digits of group 2,
\* 0 when there is no match
ParenDigits(filename) ==
    LET n == Len(filename)
        K == {k \in 1..(n - 3) :
                /\ filename[n] = ")"
                /\ \A i \in (n - k)..(n - 1) : IsDigit(filename[i])
                /\ filename[n - k - 1] = "("
                /\ IsWord(filename[n - k - 2])}
    IN IF K = {} THEN 0 ELSE CHOOSE k \in K : TRUE

\* f"...'{filename.replace('-', ' (')})'": the suggested name
HyphenSuggestion(filename) ==
    Replace(filename, "-", <<" ", "(">>) \o <<")">>

\* the slice taken as filename[:match.start(1)]: the word character is lost
ParenSuggestionDropsChar(filename, k) ==
    LET n == Len(filename)
    IN SubSeq(filename, 1, n - k - 3) \o <<" ", "(">>
         \o SubSeq(filename, n - k, n - 1) \o <<")">>

\* f"...'{filename[:match.start(1)+1]} ({match.group(2)})'": the suggested name
ParenSuggestion(filename, k) ==
    LET n == Len(filename)
    IN SubSeq(filename, 1, n - k - 2) \o <<" ", "(">>
         \o SubSeq(filename, n - k, n - 1) \o <<")">>

check_filename_format(path) ==
    LET filename == Stem(path)
    IN IF HyphenDigits(filename) > 0
         THEN <<"Uses hyphen format", HyphenSuggestion(filename)>>
       ELSE IF ParenDigits(filename) > 0
         THEN <<"Missing space before parens",
                ParenSuggestion(filename, ParenDigits(filename))>>
       ELSE None

(***************************************************************************)
(* check_deck_content                                                      *)
(***************************************************************************)
Slashes == <<"/", "/">>
UnknownHeader == <<"/", "/", "U", "n", "k", "n", "o", "w", "n">>
Random == <<"r", "a", "n", "d", "o", "m">>
Rare == <<"r", "a", "r", "e">>

\* the number of lines range(i, min(i+10, len(lines))) looks at, at most
UnknownWindow == 10

Min(a, b) == IF a < b THEN a ELSE b

\* the range taken one line short
RangeEndOneShort(i, n) == Min(i + UnknownWindow - 1, n)

\* the end of range(i, min(i+10, len(lines)))
RangeEnd(i, n) == Min(i + UnknownWindow, n)

\* the test of lines 74-75 on card_line
IsUnknownCard(card_line) ==
    /\ card_line # <<>>
    /\ ~StartsWith(card_line, Slashes)
    /\ ~Contains(ToLower(card_line), Random)
    /\ ~Contains(ToLower(card_line), Rare)

\* what is appended at line 76 for the 0-based index j under the header at i
UnknownEntry(lines, i, j) == <<i + j - i + 1, Strip(lines[j + 1])>>

\* the inner loop: for j in range(i, end), lines[j] being the TLA+ lines[j+1]
RECURSIVE ScanWindow(_, _, _, _)
ScanWindow(lines, i, j, end) ==
    IF j >= end THEN <<>>
    ELSE (IF IsUnknownCard(Strip(lines[j + 1]))
            THEN <<UnknownEntry(lines, i, j)>> ELSE <<>>)
         \o ScanWindow(lines, i, j + 1, end)

\* the outer loop: for i, line in enumerate(lines, 1)
RECURSIVE ScanLines(_, _)
ScanLines(lines, i) ==
    IF i > Len(lines) THEN <<>>
    ELSE (IF StartsWith(Strip(lines[i]), UnknownHeader)
            THEN ScanWindow(lines, i, i, RangeEnd(i, Len(lines))) ELSE <<>>)
         \o ScanLines(lines, i + 1)

\* any(line.strip().startswith('//') for line in lines)
HasHeaders(lines) ==
    IF \E i \in 1..Len(lines) : StartsWith(Strip(lines[i]), Slashes)
    THEN "True" ELSE "False"

\* the comparison made without regard to case
NameIssueIgnoringCase(deck_name, expected_name) ==
    IF ToLower(deck_name) # ToLower(expected_name)
    THEN <<"Deck name doesn't match filename", deck_name, expected_name>>
    ELSE None

\* lines 55-61
NameIssue(deck_name, expected_name) ==
    IF deck_name # expected_name
    THEN <<"Deck name doesn't match filename", deck_name, expected_name>>
    ELSE None

\* the returned triple; f is [name, lines, readable] and the read has succeeded
check_deck_content(f) ==
    IF f.lines = <<>>
    THEN [name_issue |-> <<"Empty file">>, has_headers |-> "None",
          unknown_cards |-> <<>>]
    ELSE [name_issue |-> NameIssue(Strip(f.lines[1]), Stem(f.name)),
          has_headers |-> HasHeaders(f.lines),
          unknown_cards |-> ScanLines(f.lines, 1)]

(***************************************************************************)
(* Inputs                                                                  *)
(***************************************************************************)
MaxNameLen == 5
MaxLines == 12
MaxMarks == 2
MaxFiles == 3

\* base names for check_filename_format: every name of 1..MaxNameLen characters
NameAlphabet == {"A", "-", "3", " ", "(", ")"}
IsNameInput(name) ==
    \E n \in 1..MaxNameLen : \E stem \in [1..n -> NameAlphabet] : name = stem \o DotTxt

\* lines as readlines() returns them
LineA == <<"A", "\n">>
LineBlank == <<"\n">>
LineCard == <<"C", "a", "r", "d", "\n">>
LineUnknown == <<"/", "/", "U", "n", "k", "n", "o", "w", "n", "\n">>
LineUnknownIndented == <<" ", "/", "/", "U", "n", "k", "n", "o", "w", "n", " ", "\n">>
LineRandomOnly == <<"R", "a", "n", "d", "o", "m", "\n">>
LineLands == <<"/", "/", "L", "a", "n", "d", "s", "\n">>
LineRandomRare == <<"R", "a", "n", "d", "o", "m", " ", "r", "a", "r", "e", "\n">>
LineRareOnly == <<" ", "R", "A", "R", "E", " ", "A", "\n">>

\* decks for the unknown-card scan: up to MaxLines lines, a card on every line
\* but at no more than MaxMarks marked ones
MarkLines == {LineUnknownIndented, LineBlank, LineLands, LineRandomOnly, LineRareOnly}
IsWindowDeck(d) ==
    \E len \in 0..MaxLines :
      \E P \in {Q \in SUBSET (1..len) : Cardinality(Q) <= MaxMarks} :
        \E m \in [P -> MarkLines] :
          d = [name |-> <<"A">> \o DotTxt,
               lines |-> [i \in 1..len |-> IF i \in P THEN m[i] ELSE LineCard],
               readable |-> TRUE]

\* the tree under ETC_DIR: two set directories, the excluded directory and a
\* plain file, with at most MaxFiles files in the directories
SetDirNames == {<<"B">>, <<"A">>}
Excluded == {<<"p", "a", "r", "s", "i", "n", "g", "-", "s", "c", "r", "i", "p", "t", "s">>}
PlainEntry == [name |-> <<"R">> \o DotTxt, is_dir |-> FALSE, files |-> {}]
FileNames == {<<"A", " ", "(", "1", ")">> \o DotTxt, <<"A", "-", "1">> \o DotTxt,
              <<"A", ".", "m", "d">>}
FirstLineOK == <<"A", " ", "(", "1", ")", "\n">>
Unreadable == [lines |-> <<>>, readable |-> FALSE]
DoubleUnknown ==
    [lines |-> <<FirstLineOK, LineUnknown, LineUnknown, LineCard, LineRandomRare>>,
     readable |-> TRUE]
FileContents ==
    { [lines |-> <<>>, readable |-> TRUE],
      [lines |-> <<FirstLineOK, LineLands, LineCard>>, readable |-> TRUE],
      [lines |-> <<FirstLineOK, LineCard>>, readable |-> TRUE],
      DoubleUnknown,
      Unreadable }
ExcludedContents == {DoubleUnknown}
Slots == (SetDirNames \X FileNames) \cup (Excluded \X {<<"A", "-", "1">> \o DotTxt})
ContentsAt(slot) == IF slot[1] \in Excluded THEN ExcludedContents ELSE FileContents
IsTree(tree) ==
    \E S \in {T \in SUBSET Slots : Cardinality(T) <= MaxFiles} :
      \E c \in [S -> FileContents \cup ExcludedContents] :
        /\ \A sl \in S : c[sl] \in ContentsAt(sl)
        /\ tree = {[name |-> d, is_dir |-> TRUE,
                    files |-> {[name |-> sl[2], lines |-> c[sl].lines,
                                readable |-> c[sl].readable] :
                                 sl \in {t \in S : t[1] = d}}] :
                     d \in SetDirNames \cup Excluded} \cup {PlainEntry}

\* trees of one deck, for the deck-name check: a base name and a first line
DeckNames == {<<"A">> \o DotTxt, <<"a">> \o DotTxt, <<"A", " ">> \o DotTxt,
              <<"A", ".", "A">> \o DotTxt}
FirstLines == {LineA, <<"a", "\n">>, <<"A", " ", "\n">>, <<" ", "A", "\n">>,
               <<"A">>, <<"A", ".", "A", "\n">>, <<"A", "A", "\n">>, LineBlank,
               LineUnknown}
RestLines == {<<>>, <<LineLands>>, <<LineCard, LineBlank>>}
NameDecks(names) ==
    {[name |-> n, lines |-> <<l>> \o r, readable |-> TRUE] :
        n \in names, l \in FirstLines, r \in RestLines}
       \cup {[name |-> n, lines |-> c.lines, readable |-> c.readable] :
               n \in names, c \in {Unreadable, [lines |-> <<>>, readable |-> TRUE]}}
DeckTrees(names) ==
    {{[name |-> <<"A">>, is_dir |-> TRUE, files |-> {d}], PlainEntry} :
        d \in NameDecks(names)}

(***************************************************************************)
(* audit_directory and main                                                *)
(***************************************************************************)
\* Python truth of name_issue: None is false, a non-empty string is true
Truthy(v) == v # None

\* Python truth of has_headers: None and False are false
HeadersTruthy(h) == h = "True"

Path(f) == <<set_name, f.name>>

Bump(st, key, n) == [st EXCEPT ![key] = @ + n]

\* lines 89-95: the count and the filename check
AfterFilenameCheck(f) ==
    LET issue == check_filename_format(f.name)
    IN [stats |-> IF Truthy(issue)
                    THEN Bump(Bump(stats, "total_files", 1), "bad_naming", 1)
                    ELSE Bump(stats, "total_files", 1),
        issues |-> IF Truthy(issue)
                     THEN [issues EXCEPT !.filename =
                             Append(@, [path |-> Path(f), msg |-> issue])]
                     ELSE issues]

\* the None of an empty file counted as neither formatted nor raw
CountHeadersSkippingNone(st, has_headers) ==
    IF has_headers = "None" THEN st
    ELSE IF has_headers = "True" THEN Bump(st, "formatted", 1)
    ELSE Bump(st, "raw", 1)

\* lines 103-106
CountHeaders(st, has_headers) ==
    IF HeadersTruthy(has_headers) THEN Bump(st, "formatted", 1)
    ELSE Bump(st, "raw", 1)

\* lines 108-111
UnknownIssues(f, unknown_cards) ==
    [k \in 1..Len(unknown_cards) |->
        [path |-> Path(f), line |-> unknown_cards[k][1], card |-> unknown_cards[k][2]]]

\* line 114, and the sorted listing of line 117
Start ==
    /\ pc = "start"
    /\ out' = out \o <<<<"banner">>, <<"blank">>>>
    /\ set_dirs' = SortedByName(fs)
    /\ pc' = "scan"
    /\ UNCHANGED <<fs, set_name, txt_files, stats, issues, processed>>
    /\ UNCHANGED <<nameVars, contentVars>>

\* lines 117-119 and 82-86: the next entry is a set directory
EnterSetDir ==
    /\ pc = "scan" /\ txt_files = <<>> /\ set_dirs # <<>>
    /\ LET d == Head(set_dirs)
       IN /\ d.is_dir /\ d.name \notin Excluded
          /\ set_name' = d.name
          /\ txt_files' = SortedByName({f \in d.files : EndsWith(f.name, DotTxt)})
    /\ set_dirs' = Tail(set_dirs)
    /\ UNCHANGED <<fs, pc, stats, issues, processed, out>>
    /\ UNCHANGED <<nameVars, contentVars>>

\* line 118: the next entry is no directory, or the excluded one
SkipEntry ==
    /\ pc = "scan" /\ txt_files = <<>> /\ set_dirs # <<>>
    /\ LET d == Head(set_dirs)
       IN ~(d.is_dir /\ d.name \notin Excluded)
    /\ set_dirs' = Tail(set_dirs)
    /\ UNCHANGED <<fs, pc, set_name, txt_files, stats, issues, processed, out>>
    /\ UNCHANGED <<nameVars, contentVars>>

\* lines 88-111: the loop body on a file that can be read
AuditFile ==
    /\ pc = "scan" /\ txt_files # <<>>
    /\ LET f == Head(txt_files)
           named == AfterFilenameCheck(f)
           r == check_deck_content(f)
       IN /\ f.readable
          /\ stats' = Bump(CountHeaders(named.stats, r.has_headers),
                           "unknown_cards", Len(r.unknown_cards))
          /\ issues' =
               [named.issues EXCEPT
                  !.deck_name = IF Truthy(r.name_issue)
                                  THEN Append(@, [path |-> Path(f), msg |-> r.name_issue])
                                  ELSE @,
                  !.unknown = @ \o UnknownIssues(f, r.unknown_cards)]
          /\ processed' = Append(processed, Path(f))
    /\ txt_files' = Tail(txt_files)
    /\ UNCHANGED <<fs, pc, set_dirs, set_name, out>>
    /\ UNCHANGED <<nameVars, contentVars>>

\* the failing read caught and the file skipped
AuditFileSkipsUnreadable ==
    /\ pc = "scan" /\ txt_files # <<>>
    /\ LET f == Head(txt_files)
           named == AfterFilenameCheck(f)
       IN /\ ~f.readable
          /\ stats' = named.stats
          /\ issues' = named.issues
          /\ processed' = Append(processed, Path(f))
    /\ txt_files' = Tail(txt_files)
    /\ UNCHANGED <<fs, pc, set_dirs, set_name, out>>
    /\ UNCHANGED <<nameVars, contentVars>>

\* lines 88-98 and 49-50: open() or readlines() raises, nothing catches it
AuditFileFails ==
    /\ pc = "scan" /\ txt_files # <<>>
    /\ LET f == Head(txt_files)
           named == AfterFilenameCheck(f)
       IN /\ ~f.readable
          /\ stats' = named.stats
          /\ issues' = named.issues
          /\ processed' = Append(processed, Path(f))
    /\ pc' = "crashed"
    /\ UNCHANGED <<fs, set_dirs, set_name, txt_files, out>>
    /\ UNCHANGED <<nameVars, contentVars>>

StatKeys == <<"total_files", "formatted", "raw", "bad_naming", "unknown_cards">>

\* lines 121-127
PrintStatistics ==
    /\ pc = "scan" /\ txt_files = <<>> /\ set_dirs = <<>>
    /\ out' = out \o [k \in 1..5 |-> <<"stat", StatKeys[k], stats[StatKeys[k]]>>]
                  \o <<<<"blank">>>>
    /\ pc' = "issues"
    /\ UNCHANGED <<fs, set_dirs, set_name, txt_files, stats, issues, processed>>
    /\ UNCHANGED <<nameVars, contentVars>>

\* one of the blocks of lines 130-146
Block(category) ==
    IF issues[category] # <<>>
    THEN <<<<"title", category>>>>
           \o [k \in 1..Len(issues[category]) |-> <<"issue", issues[category][k]>>]
           \o <<<<"blank">>>>
    ELSE <<>>

\* only the filename list looked at
NoFilenameIssues == issues["filename"] = <<>>

\* not any(issues.values())
NoIssues == ~\E category \in DOMAIN issues : issues[category] # <<>>

\* lines 129-149
PrintIssues ==
    /\ pc = "issues"
    /\ out' = out \o Block("filename") \o Block("deck_name") \o Block("unknown")
                  \o (IF NoIssues THEN <<<<"ok">>>> ELSE <<>>)
    /\ pc' = "done"
    /\ UNCHANGED <<fs, set_dirs, set_name, txt_files, stats, issues, processed>>
    /\ UNCHANGED <<nameVars, contentVars>>

\* before the call: no return value yet
NotCalled == [name_issue |-> <<"unset">>, has_headers |-> "unset", unknown_cards |-> <<>>]

NoDeck == [name |-> <<>>, lines |-> <<>>, readable |-> TRUE]

\* a call of check_filename_format
CheckFilename ==
    /\ filename_issue = <<"unset">>
    /\ filename_issue' = check_filename_format(filepath)
    /\ UNCHANGED <<filepath, contentVars, runVars>>

\* a call of check_deck_content
CheckContent ==
    /\ content_result = NotCalled
    /\ content_result' = check_deck_content(deck)
    /\ UNCHANGED <<deck, nameVars, runVars>>

InitRunVars ==
    /\ pc = "start"
    /\ set_dirs = <<>>
    /\ set_name = <<>>
    /\ txt_files = <<>>
    /\ stats = [total_files |-> 0, formatted |-> 0, raw |-> 0, bad_naming |-> 0,
                unknown_cards |-> 0]
    /\ issues = [filename |-> <<>>, deck_name |-> <<>>, unknown |-> <<>>]
    /\ processed = <<>>
    /\ out = <<>>

\* a run of main over a tree
Init ==
    /\ IsTree(fs)
    /\ InitRunVars
    /\ filepath = <<>> /\ filename_issue = <<"unset">>
    /\ deck = NoDeck /\ content_result = NotCalled

Next ==
    \/ Start
    \/ EnterSetDir
    \/ SkipEntry
    \/ AuditFile
    \/ AuditFileFails
    \/ PrintStatistics
    \/ PrintIssues

Spec == Init /\ [][Next]_vars

\* check_filename_format on every base name
InitName ==
    /\ IsNameInput(filepath)
    /\ filename_issue = <<"unset">>
    /\ deck = NoDeck /\ content_result = NotCalled
    /\ fs = {} /\ InitRunVars

NextName == CheckFilename

SpecName == InitName /\ [][NextName]_vars

\* check_deck_content on every deck
InitContent ==
    /\ IsWindowDeck(deck)
    /\ content_result = NotCalled
    /\ filepath = <<>> /\ filename_issue = <<"unset">>
    /\ fs = {} /\ InitRunVars

NextContent == CheckContent

SpecContent == InitContent /\ [][NextContent]_vars

\* a run of main over a tree of one deck
InitDeckName ==
    /\ fs \in DeckTrees(DeckNames)
    /\ InitRunVars
    /\ filepath = <<>> /\ filename_issue = <<"unset">>
    /\ deck = NoDeck /\ content_result = NotCalled

SpecDeckName == InitDeckName /\ [][Next]_vars

(***************************************************************************)
(* Properties of check_filename_format, under SpecName                     *)
(***************************************************************************)
NameChecked == filename_issue # <<"unset">>

\* the base name: the file name without ".txt"
Base(name) == SubSeq(name, 1, Len(name) - 4)

AllDigits(s) == s # <<>> /\ \A i \in 1..Len(s) : IsDigit(s[i])

\* s is pre, then "-", then one or more digits ds
IsHyphenForm(s, pre, ds) == AllDigits(ds) /\ s = pre \o <<"-">> \o ds

\* s is pre, then "(", one or more digits ds, and ")"
IsParenForm(s, pre, ds) == AllDigits(ds) /\ s = pre \o <<"(">> \o ds \o <<")">>

Splits(s) == {<<SubSeq(s, 1, i), SubSeq(s, j, k)>> :
                <<i, j, k>> \in (0..Len(s)) \X (1..Len(s)) \X (1..Len(s))}

\* C2: every base name ending in "-<digits>" is flagged as hyphen form, and the
\* suggested name is the base name with only that trailing "-<digits>" rewritten
\* as " (<digits>)", every earlier character unchanged.
C2_HyphenSuggestionRewritesOnlySuffix ==
    NameChecked =>
        \A sp \in Splits(Base(filepath)) :
            IsHyphenForm(Base(filepath), sp[1], sp[2]) =>
                filename_issue = <<"Uses hyphen format",
                                   sp[1] \o <<" ", "(">> \o sp[2] \o <<")">>>>

\* C3 as stated: every base name ending in "(<digits>)" with no space right
\* before the "(" is flagged as missing-space with one space inserted; a base
\* name ending in " (<digits>)" has no issue; the two findings never both fire.
C3_EveryUnspacedParenFlagged ==
    NameChecked =>
        \A sp \in Splits(Base(filepath)) :
            IsParenForm(Base(filepath), sp[1], sp[2]) =>
                IF sp[1] # <<>> /\ sp[1][Len(sp[1])] = " "
                THEN filename_issue = None
                ELSE filename_issue = <<"Missing space before parens",
                                        sp[1] \o <<" ", "(">> \o sp[2] \o <<")">>>>

\* C3 as amended: every base name ending in a word character immediately
\* followed by "(<digits>)" is flagged as missing-space, the suggestion being the
\* name with exactly one space inserted before that parenthesis; a base name
\* ending in " (<digits>)" has no issue; a hyphen finding is never given to a
\* name ending in "(<digits>)" nor a missing-space finding to one ending in
\* "-<digits>".
C3_WordCharParenFlagged ==
    NameChecked =>
        /\ \A sp \in Splits(Base(filepath)) :
             IsParenForm(Base(filepath), sp[1], sp[2]) =>
                /\ (sp[1] # <<>> /\ IsWord(sp[1][Len(sp[1])])) =>
                      filename_issue = <<"Missing space before parens",
                                         sp[1] \o <<" ", "(">> \o sp[2] \o <<")">>>>
                /\ (sp[1] # <<>> /\ sp[1][Len(sp[1])] = " ") => filename_issue = None
                /\ filename_issue[1] # "Uses hyphen format"
        /\ \A sp \in Splits(Base(filepath)) :
             IsHyphenForm(Base(filepath), sp[1], sp[2]) =>
                filename_issue[1] # "Missing space before parens"
        /\ filename_issue[1] \in {"None", "Uses hyphen format", "Missing space before parens"}

\* a name of two digits after a word character has been flagged
C3_Witness ==
    /\ NameChecked
    /\ Base(filepath) = <<"A", "(", "3", "3", ")">>
    /\ filename_issue = <<"Missing space before parens", <<"A", " ", "(", "3", "3", ")">>>>

(***************************************************************************)
(* Properties of check_deck_content, under SpecContent                     *)
(***************************************************************************)
ContentChecked == content_result # NotCalled

Trimmed(n) == Strip(deck.lines[n])

\* the set of line numbers recorded as unknown-card entries
FlaggedLines ==
    {content_result.unknown_cards[k][1] : k \in 1..Len(content_result.unknown_cards)}

IsUnknownHeaderAt(h) == StartsWith(Trimmed(h), UnknownHeader)

IsCandidateAt(n) ==
    /\ Trimmed(n) # <<>>
    /\ ~StartsWith(Trimmed(n), <<"/", "/">>)
    /\ ~Contains(ToLower(Trimmed(n)), <<"r", "a", "n", "d", "o", "m">>)
    /\ ~Contains(ToLower(Trimmed(n)), <<"r", "a", "r", "e">>)

\* C6: line n (1-based) is flagged exactly when some line h with n-10 <= h < n
\* is an "//Unknown" header and line n, trimmed, is non-empty, starts with no
\* "//" and contains neither "random" nor "rare" in lower case; the recorded
\* number is n and the recorded text is the trimmed line n.
C6_FlaggedExactlyWithinTenLines ==
    (ContentChecked /\ deck.lines # <<>>) =>
        /\ \A n \in 1..Len(deck.lines) :
             n \in FlaggedLines <=>
                /\ \E h \in 1..Len(deck.lines) :
                      n - 10 <= h /\ h < n /\ IsUnknownHeaderAt(h)
                /\ IsCandidateAt(n)
        /\ \A k \in 1..Len(content_result.unknown_cards) :
             LET e == content_result.unknown_cards[k]
             IN e[1] \in 1..Len(deck.lines) /\ e[2] = Trimmed(e[1])

\* the 10th line after the only header is flagged and the 11th, a card too, is not
C6_Witness ==
    /\ ContentChecked
    /\ \E h \in 1..Len(deck.lines) :
          /\ h + 11 <= Len(deck.lines)
          /\ IsUnknownHeaderAt(h)
          /\ \A g \in 1..Len(deck.lines) : IsUnknownHeaderAt(g) => g = h
          /\ IsCandidateAt(h + 10) /\ h + 10 \in FlaggedLines
          /\ IsCandidateAt(h + 11) /\ h + 11 \notin FlaggedLines

(***************************************************************************)
(* Properties of a run of main, under Spec                                 *)
(***************************************************************************)
Range(q) == {q[i] : i \in 1..Len(q)}

Last(q) == q[Len(q)]

\* the .txt files of the set directories, as <<set, file name>>
ExpectedPaths ==
    UNION {{<<d.name, f.name>> :
              f \in {g \in d.files : EndsWith(g.name, <<".", "t", "x", "t">>)}} :
           d \in {e \in fs : e.is_dir /\ e.name \notin Excluded}}

\* the file of the tree at a path
FileAt(p) ==
    CHOOSE f \in UNION {d.files : d \in {e \in fs : e.name = p[1]}} : f.name = p[2]

\* the order by (set, file name)
PathLess(p, q) ==
    \/ StrLess(p[1], q[1])
    \/ p[1] = q[1] /\ StrLess(p[2], q[2])

HasHeaderLine(f) ==
    \E i \in 1..Len(f.lines) : StartsWith(Strip(f.lines[i]), <<"/", "/">>)

\* a step that runs the loop body on a file whose read succeeds
AuditsReadable == processed' # processed /\ pc' # "crashed"

\* C1: an empty file adds one to total_files, is reported as "Empty file" and
\* changes neither the formatted nor the raw counter.
C1_EmptyFileCountsNeither ==
    [][(AuditsReadable /\ Head(txt_files).lines = <<>>) =>
          /\ stats'.total_files = stats.total_files + 1
          /\ Last(issues'.deck_name) =
               [path |-> <<set_name, Head(txt_files).name>>, msg |-> <<"Empty file">>]
          /\ stats'.formatted = stats.formatted
          /\ stats'.raw = stats.raw]_vars

\* C5: each processed file changes exactly one of formatted and raw, by one:
\* formatted when some line, trimmed, starts with "//", raw otherwise; no other
\* step changes either counter.
C5_ExactlyOneCounterPerFile ==
    [][IF AuditsReadable
         THEN IF HasHeaderLine(Head(txt_files))
                THEN /\ stats'.formatted = stats.formatted + 1
                     /\ stats'.raw = stats.raw
                ELSE /\ stats'.raw = stats.raw + 1
                     /\ stats'.formatted = stats.formatted
         ELSE /\ stats'.formatted = stats.formatted
              /\ stats'.raw = stats.raw]_vars

\* a run has counted a file with a header and a non-empty file without one
C5_Witness ==
    /\ stats.formatted >= 1
    /\ stats.raw >= 1
    /\ \E p \in Range(processed) :
          FileAt(p).readable /\ FileAt(p).lines # <<>> /\ ~HasHeaderLine(FileAt(p))

Categories == <<"filename", "deck_name", "unknown">>

TitleAt(category) ==
    {i \in 1..Len(out) : out[i][1] = "title" /\ out[i][2] = category}

OkPrinted == \E i \in 1..Len(out) : out[i][1] = "ok"

\* C7: at the end of main the confirmation line is printed iff the three issue
\* lists are empty; a titled block is printed for a category iff its list is
\* non-empty, once, in the order filename, deck-name, unknown-card, followed by
\* every issue of the category in order; the confirmation never joins a block.
C7_ReportBlocks ==
    /\ pc = "done" =>
         /\ OkPrinted <=> \A c \in 1..3 : issues[Categories[c]] = <<>>
         /\ \A c \in 1..3 :
              LET list == issues[Categories[c]]
              IN /\ list # <<>> <=> TitleAt(Categories[c]) # {}
                 /\ Cardinality(TitleAt(Categories[c])) <= 1
                 /\ \A i \in TitleAt(Categories[c]) :
                      /\ i + Len(list) <= Len(out)
                      /\ \A k \in 1..Len(list) :
                           out[i + k][1] = "issue" /\ out[i + k][2] = list[k]
         /\ \A c, d \in 1..3 :
              c < d => \A i \in TitleAt(Categories[c]), j \in TitleAt(Categories[d]) : i < j
         /\ Cardinality({i \in 1..Len(out) : out[i][1] = "issue"})
              = Len(issues.filename) + Len(issues.deck_name) + Len(issues.unknown)
         /\ ~(OkPrinted /\ \E c \in 1..3 : TitleAt(Categories[c]) # {})
    /\ pc # "done" =>
         ~OkPrinted /\ \A i \in 1..Len(out) : out[i][1] \notin {"title", "issue"}

\* a finished report with all three blocks, one of them of two issues
C7_Witness ==
    /\ pc = "done"
    /\ \A c \in 1..3 : TitleAt(Categories[c]) # {}
    /\ Len(issues.unknown) >= 2

\* C8: without I/O failure every .txt file of every set directory is processed
\* exactly once, in the order of (set, file name), whatever issues were found;
\* nothing else is processed; total_files is their number and each issue list
\* is ordered by (set, file name).
C8_EveryDeckOnceInOrder ==
    pc \in {"issues", "done"} =>
        /\ Range(processed) = ExpectedPaths
        /\ \A i, j \in 1..Len(processed) :
             i < j => PathLess(processed[i], processed[j])
        /\ stats.total_files = Cardinality(ExpectedPaths)
        /\ \A c \in 1..3 :
             LET list == issues[Categories[c]]
             IN \A i, j \in 1..Len(list) : i < j => ~PathLess(list[j].path, list[i].path)

\* a finished run over decks of two sets, with issues of every category, beside
\* a .txt file of the excluded directory
C8_Witness ==
    /\ pc = "done"
    /\ \E i, j \in 1..Len(processed) : processed[i][1] # processed[j][1]
    /\ \A c \in 1..3 : issues[Categories[c]] # <<>>
    /\ \E d \in fs : d.name \in Excluded /\ d.files # {}

StatsPrinted == \E i \in 1..Len(out) : out[i][1] = "stat"

\* C9: a failing read ends the run at that file: it is the last file touched,
\* nothing is printed but the header line, and no step follows; the statistics
\* are printed only once every set directory has been scanned.
C9_ReadFailureIsFatal ==
    /\ \A i \in 1..Len(processed) :
         ~FileAt(processed[i]).readable =>
            /\ i = Len(processed)
            /\ pc = "crashed"
            /\ out = <<<<"banner">>, <<"blank">>>>
            /\ ~ENABLED Next
    /\ StatsPrinted =>
         /\ set_dirs = <<>> /\ txt_files = <<>>
         /\ Range(processed) = ExpectedPaths

\* the run has ended at an unreadable file with other decks still to scan
C9_Witness ==
    /\ pc = "crashed"
    /\ ~FileAt(Last(processed)).readable
    /\ ExpectedPaths \ Range(processed) # {}

\* C10: at the end of a run unknown_cards is the number of distinct
\* (set/file, line) pairs flagged, and the unknown-card list has no duplicates.
C10_UnknownCountedOncePerLine ==
    pc = "done" =>
        /\ stats.unknown_cards =
             Cardinality({<<e.path, e.line>> : e \in Range(issues.unknown)})
        /\ \A i, j \in 1..Len(issues.unknown) :
             i < j => issues.unknown[i] # issues.unknown[j]

(***************************************************************************)
(* Properties of the deck-name check, under SpecDeckName                   *)
(***************************************************************************)
TheDeck == CHOOSE f \in UNION {d.files : d \in fs} : TRUE

\* the first line without its line terminator
FirstLineText ==
    LET l == TheDeck.lines[1]
    IN IF l # <<>> /\ Last(l) = "\n" THEN SubSeq(l, 1, Len(l) - 1) ELSE l

Mismatch(declared, base) ==
    [path |-> <<<<"A">>, TheDeck.name>>,
     msg |-> <<"Deck name doesn't match filename", declared, base>>]

DeckScanned == pc \in {"issues", "done"} /\ TheDeck.lines # <<>>

\* C4 as stated: no mismatch issue when the first line exactly equals the base
\* name; exactly one, with both names, when the trimmed first line differs.
C4_ExactFirstLineNoMismatch ==
    DeckScanned =>
        /\ FirstLineText = Base(TheDeck.name) => issues.deck_name = <<>>
        /\ Strip(TheDeck.lines[1]) # Base(TheDeck.name) =>
              issues.deck_name =
                <<Mismatch(Strip(TheDeck.lines[1]), Base(TheDeck.name))>>

\* C4 as amended: no mismatch issue when the trimmed first line equals the base
\* name; exactly one, with both names, when the trimmed first line differs from
\* it in any way, case included.
C4_TrimmedFirstLineDecides ==
    DeckScanned =>
        /\ Strip(TheDeck.lines[1]) = Base(TheDeck.name) => issues.deck_name = <<>>
        /\ Strip(TheDeck.lines[1]) # Base(TheDeck.name) =>
              issues.deck_name =
                <<Mismatch(Strip(TheDeck.lines[1]), Base(TheDeck.name))>>

\* a deck whose first line differs from the base name in case only was reported
C4_Witness ==
    /\ DeckScanned /\ pc = "done"
    /\ FirstLineText # Base(TheDeck.name)
    /\ ToLower(FirstLineText) = ToLower(Base(TheDeck.name))
    /\ Len(issues.deck_name) = 1

====
